---- MODULE Spec2Model ----
(***************************************************************************)
(* State-machine model of the Kirby-like platformer: the map loader        *)
(* (makeMap), the player (makePlayer / setControls), the inhalable         *)
(* protocol (makeInhalable), the hopper (makeFlameEnemy), the patroller    *)
(* (makeGuyEnemy) and the flyer (makeBirdEnemy), and the level scene that  *)
(* creates them.                                                           *)
(*                                                                         *)
(* There is one action per handler the code registers: the key handlers,   *)
(* the collision handlers, and the per-frame update handlers.  The engine  *)
(* calls the update handlers once per frame and the others when their      *)
(* event happens; the model lets them interleave freely.  Time advances    *)
(* in frames of a fixed length, one second being TicksPerSec frames: Tick  *)
(* advances the k.wait timers by one frame and runs the continuations of   *)
(* those that are due.  k.go() defers the scene change to the end of the   *)
(* frame: the handler records the target in goTo and SceneSwitch runs the  *)
(* scene function.                                                         *)
(*                                                                         *)
(* player.posY is kept because the code reads it.  Horizontal positions    *)
(* are kept only on the levels that follow them (posX, for the player on   *)
(* the level of SpecCamera and for the flyer on the level of SpecFlight).  *)
(* vel keeps, for each enemy, the sum of the velocities its update         *)
(* handlers passed to move() in its last update (move(v) adds v * dt to    *)
(* the position), and the same for the player on the level of SpecKeys.    *)
(* held is the set of keys that are down, which the engine keeps; the      *)
(* handlers do not read it, and only PressKey, HeldKeyDown and ReleaseKey  *)
(* follow it.  cam is the position k.camPos() gave the camera, tweens the  *)
(* opacity tweens in progress, and setup the place gameSetup has reached   *)
(* with the objects the scene function has made.  life is a history        *)
(* variable, kept on the levels of SpecSpit (the numbers of enemies         *)
(* consumed and of projectiles created by the current player) and of       *)
(* SpecRespawn (the number of players made and of key events handled by    *)
(* the current one) only.                                                  *)
(*                                                                         *)
(* mapData is the map data makeMap is given and level what it has made of  *)
(* it.  The enemies of a level come from the spawn points of its map, so   *)
(* the set of enemies is the domain of the variable enemy, fixed by the    *)
(* initial state.  Spec is the whole game on a level with one hopper and   *)
(* one patroller.  The other specifications keep a part of it:             *)
(*   SpecMap        the load of a map, for every map data;                 *)
(*   SpecSetup      gameSetup from the fetch of the map to the first run   *)
(*                  of the scene function;                                 *)
(*   SpecKeys       the player alone and the keyboard;                     *)
(*   SpecJump       the player alone, the jump keys and the ground;        *)
(*   SpecCamera     the player alone, walking, and the camera;             *)
(*   SpecPlayer     the handlers of the player with the events that reach  *)
(*                  them, without the handlers that only drive the         *)
(*                  enemies' state machines (no handler of the player      *)
(*                  reads an enemy's state, timer or velocity);            *)
(*   SpecExit       the same with the collision with the exit;             *)
(*   SpecFlash      the same with the updates of the opacity tweens;       *)
(*   SpecConsume    the same on the level with the hopper alone;           *)
(*   SpecRestart    the keys held across the lives of the player;          *)
(*   SpecHopper, SpecPatroller                                             *)
(*                  the level with that enemy alone, with the handlers     *)
(*                  that act on an enemy and the part of the player that   *)
(*                  the inhale pull reads;                                 *)
(*   SpecInhalable  the same for each of the three kinds of enemy, with    *)
(*                  the projectiles;                                       *)
(*   SpecShoot      the hopper and the patroller, the inhale key and the   *)
(*                  projectiles;                                           *)
(*   SpecFlight     the flight of one flyer, frame after frame;            *)
(*   SpecRespawn    the lives of the player, with the count of the lives   *)
(*                  and of the key events of the current one;              *)
(*   SpecSpit       the handlers of the player, with the count of its      *)
(*                  consumes and spits.                                    *)
(***************************************************************************)
EXTENDS Integers, Sequences, FiniteSets

\* ---------------------------------------------------------------- bounds
TicksPerSec == 2      \* frames per second of the model
MaxStars == 1         \* projectiles alive at the same time
MaxFall == 1          \* how far the player falls in one frame, at most
MaxLayers == 2        \* layers of a map handed to makeMap
MaxObjects == 2       \* objects of one layer
MaxWalk == 5          \* frames of walking from the spawn point to the right wall
MaxSpawns == 2        \* spawn points of one group
MaxFlight == 1        \* seconds the slowest flyer takes from its spawn point to
                      \* the left edge of the screen
MaxLives == 2         \* players counted, the first one included
MaxKeyEvents == 1     \* key events counted in the life of one player

\* ------------------------------------------------------- program constants
StartHealth == 3
FallThreshold == 2000
StarSpeed == 800
PullSpeed == 800
GuySpeed == 100
PlayerSpeed == 300
IdleWait == 1
PatrolWait == 2
NumJumps == 10
FlashMillis == 50
CamClamp == 432
CamOffset == 500
OffscreenDist == 400

\* The player spawns on the threshold itself, so that both sides of the
\* comparison of the fall-out check are exercised.
SpawnY == FallThreshold

Enemies == {"flame", "guy"}
Hoppers == {"flame"}
Keys == {"left", "a", "right", "d", "z", "1", "x"}

\* The keys the k.onKeyPress handler reads.
JumpKeys == {"x", "space"}
NoScene == "none"

Patrollers == {"guy"}

\* The flyer of the "bird" spawn point: the model has one in the scene at a
\* time, the next one being created once it is gone.
Flyers == {"bird"}

\* availableSpeeds
BirdSpeeds == {100, 200, 300}

VARIABLES actionState, player, enemy, vel, timers, stars, goTo,
          held, mapData, level, cam, posX, tweens, setup, life

vars == <<actionState, player, enemy, vel, timers, stars, goTo,
          held, mapData, level, cam, posX, tweens, setup, life>>

\* ------------------------------------------------------------ key mapping
keyMappings_AIsRight ==
  [key \in {"left", "a", "right", "d", "z", "1"} |->
     IF key \in {"left"} THEN "moveLeft"
     ELSE IF key \in {"right", "d", "a"} THEN "moveRight"
     ELSE "inhale"]

keyMappings ==
  [key \in {"left", "a", "right", "d", "z", "1"} |->
     IF key \in {"left", "a"} THEN "moveLeft"
     ELSE IF key \in {"right", "d"} THEN "moveRight"
     ELSE "inhale"]

SetAction_OnlySets(as, action, v) ==
  IF v THEN [as EXCEPT ![action] = TRUE] ELSE as

\* actionState[action] = v
SetAction(as, action, v) == [as EXCEPT ![action] = v]

\* ----------------------------------------------------------------- player
\* jumpsLeft is the counter of the k.doubleJump component, which starts at
\* its number of jumps; jumped counts the jumps made since the player was
\* last on the ground.  A new body is not on a platform yet.  opacity is in
\* percent.
makePlayer ==
  [health |-> StartHealth, direction |-> "right", isInhaling |-> FALSE,
   isFull |-> FALSE, posY |-> SpawnY, exists |-> TRUE,
   jumpsLeft |-> NumJumps, jumped |-> 0, grounded |-> FALSE, opacity |-> 100]

DoubleJump_NoLimit(p) ==
  [p EXCEPT !.jumpsLeft = IF @ > 0 THEN @ - 1 ELSE 0,
            !.jumped = IF @ <= NumJumps THEN @ + 1 ELSE @, !.grounded = FALSE]

\* player.doubleJump() of the k.doubleJump component: nothing when no jump
\* is left, else one jump less and a jump of the body.
DoubleJump(p) ==
  IF p.jumpsLeft <= 0 THEN p
  ELSE [p EXCEPT !.jumpsLeft = @ - 1, !.jumped = @ + 1, !.grounded = FALSE]

\* The onGround handler of the k.doubleJump component: the counter is set to
\* the number of jumps again.
OnGround(p) == [p EXCEPT !.jumpsLeft = NumJumps, !.jumped = 0, !.grounded = TRUE]

IsConsume_OnlyAlive(p, en) == p.isInhaling /\ en.isInhalable /\ p.health > 0

\* The first test of player.onCollide("enemy").
IsConsume(p, en) == p.isInhaling /\ en.isInhalable

Consume_StillInhaling(p) == [p EXCEPT !.isFull = TRUE]

Consume(p) == [p EXCEPT !.isInhaling = FALSE, !.isFull = TRUE]

IsDead_LastPoint(p) == p.health <= 1

IsDead(p) == p.health = 0

Hurt_TwoPoints(p) == [p EXCEPT !.health = @ - 2]

\* player.hurt(): one point of health.
Hurt(p) == [p EXCEPT !.health = @ - 1]

\* The scenes registered with k.scene().
Scenes == {"level-1"}

\* k.go() to a scene that is not registered throws an Error ("Scene not
\* found"): nothing is left to run but the error screen of the engine.
SceneNotFound == "Scene not found"

\* A scene function that throws leaves the same.
Crashed == "TypeError"

Go_AnyScene(name) == name

\* k.go(name): the scene the engine switches to at the end of the frame.
Go(name) == IF name \in Scenes THEN name ELSE SceneNotFound

\* The number of updates a tween of FlashMillis takes: it ends in the first
\* update at which its time has passed.
TweenFrames == (FlashMillis * TicksPerSec + 999) \div 1000

\* k.tween(from, to, 0.05, val => player.opacity = val, linear); phase 1 is
\* the first tween of the flash of a hit and phase 2 the second.
Tween(from, to, phase) == [from |-> from, to |-> to, t |-> 0, phase |-> phase]

Flash_OnlyOne(ts, p) == IF ts = <<>> THEN <<Tween(p.opacity, 0, 1)>> ELSE ts

\* The flash a damaging collision starts, added to the tweens in progress.
Flash(ts, p) == Append(ts, Tween(p.opacity, 0, 1))

\* The value a tween writes in its update number t.
TweenValue(tw, t) ==
  IF t >= TweenFrames THEN tw.to
  ELSE tw.from + ((tw.to - tw.from) * t) \div TweenFrames

\* One frame of the tweens in progress, in registration order: each writes
\* player.opacity; one that ends is removed, and the end of a first tween
\* resumes the collision handler, which starts the second tween from the
\* opacity it then reads.
RECURSIVE RunTweens(_, _, _, _)
RunTweens(ts, opacity, kept, resumed) ==
  IF ts = <<>>
  THEN [opacity |-> opacity,
        tweens |-> kept \o [i \in 1..resumed |-> Tween(opacity, 100, 2)]]
  ELSE LET tw == Head(ts) IN
       IF tw.t + 1 >= TweenFrames
       THEN RunTweens(Tail(ts), tw.to, kept,
                      IF tw.phase = 1 THEN resumed + 1 ELSE resumed)
       ELSE RunTweens(Tail(ts), TweenValue(tw, tw.t + 1),
                      Append(kept, [tw EXCEPT !.t = @ + 1]), resumed)

FellOut_OnlyWithoutHealth(p) == p.posY > FallThreshold /\ p.health = 0

FellOut(p) == p.posY > FallThreshold

\* -------------------------------------------------------------- enemies
makeFlameEnemy ==
  [kind |-> "flame", state |-> "idle", isInhalable |-> FALSE, inZone |-> FALSE,
   exists |-> TRUE, grounded |-> TRUE, dwell |-> 0, stale |-> FALSE]

makeGuyEnemy ==
  [kind |-> "guy", state |-> "idle", isInhalable |-> FALSE, inZone |-> FALSE,
   exists |-> TRUE, grounded |-> TRUE, dwell |-> 0, stale |-> FALSE]

\* The isInhalable property is not among the components of a flyer: it is
\* undefined, which every test of it reads as false, until a handler sets it.
makeBirdEnemy(speed) ==
  [kind |-> "bird", state |-> "none", isInhalable |-> FALSE, inZone |-> FALSE,
   exists |-> TRUE, grounded |-> FALSE, dwell |-> 0, stale |-> FALSE, speed |-> speed]

\* No flyer: one that was not spawned yet, or was destroyed (nothing refers
\* to a destroyed flyer).
NoBird == [makeBirdEnemy(0) EXCEPT !.exists = FALSE]

SetInhalable_AlwaysTrue(en, v) == [en EXCEPT !.isInhalable = TRUE]

\* enemy.isInhalable = v
SetInhalable(en, v) == [en EXCEPT !.isInhalable = v]

Destroy_Nothing(en) == en

\* k.destroy(enemy)
Destroy(en) == IF en.kind = "bird" THEN NoBird ELSE [en EXCEPT !.exists = FALSE]

FlameWait_JumpWaitsToo(s) ==
  IF s = "idle" THEN <<[time |-> IdleWait, next |-> "jump"]>>
  ELSE IF s = "jump" THEN <<[time |-> IdleWait, next |-> "idle"]>>
  ELSE <<>>

\* k.wait(time) registered by the onStateEnter handler of state s of a kind:
\* the dwell time in seconds and the state the continuation enters.
FlameWait(s) ==
  IF s = "idle" THEN <<[time |-> IdleWait, next |-> "jump"]>> ELSE <<>>

GuyWait_BackToIdle(s) ==
  IF s = "idle" THEN <<[time |-> IdleWait, next |-> "left"]>>
  ELSE IF s = "left" THEN <<[time |-> PatrolWait, next |-> "right"]>>
  ELSE IF s = "right" THEN <<[time |-> PatrolWait, next |-> "idle"]>>
  ELSE <<>>

GuyWait(s) ==
  IF s = "idle" THEN <<[time |-> IdleWait, next |-> "left"]>>
  ELSE IF s = "left" THEN <<[time |-> PatrolWait, next |-> "right"]>>
  ELSE IF s = "right" THEN <<[time |-> PatrolWait, next |-> "left"]>>
  ELSE <<>>

StateWait(kind, s) == IF kind = "flame" THEN FlameWait(s) ELSE GuyWait(s)

\* The timers an onStateEnter handler of enemy e registers on entering s.
NewTimers(kind, e, s) ==
  LET w == StateWait(kind, s) IN
  [i \in 1..Len(w) |->
     [owner |-> e, t |-> 0, time |-> w[i].time * TicksPerSec, next |-> w[i].next]]

\* enterState(s) of the state component followed by the onStateEnter handler:
\* the hopper's jump handler calls jump(1000), which takes it off the ground.
\* stale records that a handler has acted on the object after its destruction.
EnterState(en, s) ==
  [en EXCEPT !.state = s, !.dwell = 0,
             !.grounded = IF en.kind = "flame" /\ s = "jump" THEN FALSE ELSE @,
             !.stale = @ \/ ~en.exists]


\* ----------------------------------------------------------- projectiles
ShootingStar_AlwaysRight(p) == [dir |-> "right", speed |-> StarSpeed]

\* The shootingStar object created by a spit: k.move(k.LEFT | k.RIGHT, 800).
ShootingStar(p) == [dir |-> p.direction, speed |-> StarSpeed]

Spit_StaysFull(p) == p

\* player.isFull = false after the shootingStar is added.
Spit(p) == [p EXCEPT !.isFull = FALSE]

StopInhaling_Forgotten(p) == p

StopInhaling(p) == [p EXCEPT !.isInhaling = FALSE]

RemoveAt(s, i) == [j \in 1..(Len(s) - 1) |-> IF j < i THEN s[j] ELSE s[j + 1]]

\* ------------------------------------------------- per-frame update handlers
MoveUpdate_LeftWins(p, as) ==
  IF as.moveLeft THEN [p EXCEPT !.direction = "left"]
  ELSE IF as.moveRight THEN [p EXCEPT !.direction = "right"]
  ELSE p

\* k.onUpdate of setControls, movement part: the facing direction.
MoveUpdate(p, as) ==
  IF as.moveLeft /\ ~as.moveRight THEN [p EXCEPT !.direction = "left"]
  ELSE IF as.moveRight /\ ~as.moveLeft THEN [p EXCEPT !.direction = "right"]
  ELSE p

\* k.onUpdate of setControls, movement part: the velocity given to
\* player.move(), none when neither branch is taken.
PlayerVel(as) ==
  IF as.moveLeft /\ ~as.moveRight THEN 0 - PlayerSpeed
  ELSE IF as.moveRight /\ ~as.moveLeft THEN PlayerSpeed
  ELSE 0

InhaleUpdate_EvenWhenFull(p, as) ==
  IF as.inhale THEN [p EXCEPT !.isInhaling = TRUE] ELSE p

\* k.onUpdate of setControls, inhale part.
InhaleUpdate(p, as) ==
  IF as.inhale /\ ~p.isFull THEN [p EXCEPT !.isInhaling = TRUE] ELSE p

ControlsUpdate(p, as) == InhaleUpdate(MoveUpdate(p, as), as)

\* enemy.onUpdate of makeInhalable: the velocity of the inhale pull.
Pull_TowardFacing(p, en) ==
  IF p.isInhaling /\ en.isInhalable
  THEN (IF p.direction = "right" THEN PullSpeed ELSE 0 - PullSpeed)
  ELSE 0

Pull(p, en) ==
  IF p.isInhaling /\ en.isInhalable
  THEN (IF p.direction = "right" THEN 0 - PullSpeed ELSE PullSpeed)
  ELSE 0

GuyMove_OneWay(en) ==
  IF en.kind = "guy" /\ en.state \in {"left", "right"} THEN 0 - GuySpeed ELSE 0

\* onStateUpdate("left" | "right") of the patroller: the velocity it moves at.
GuyMove(en) ==
  IF en.kind = "guy" /\ en.state = "left" THEN 0 - GuySpeed
  ELSE IF en.kind = "guy" /\ en.state = "right" THEN GuySpeed
  ELSE 0

\* k.move(k.LEFT, speed) of a flyer.
BirdMove(en) == IF en.kind = "bird" THEN 0 - en.speed ELSE 0

Lands_InTheAir(en) == en.kind = "flame" /\ en.state = "jump"

\* onStateUpdate("jump") of the hopper: back to idle once grounded.
Lands(en) == en.kind = "flame" /\ en.state = "jump" /\ en.grounded

StateUpdate(en) == IF Lands(en) THEN EnterState(en, "idle") ELSE en

\* The velocity the update handlers of one live enemy give it in one frame:
\* its state update handler first, then the onUpdate handler of makeInhalable.
FrameVel(p, en) == GuyMove(en) + BirdMove(en) + Pull(p, en)

\* Time spent in a state with a dwell timer, counted in frames.
Age(en) == [en EXCEPT !.dwell = IF en.state \in {"jump", "none"} THEN 0 ELSE @ + 1]

EnemyOrder == <<"flame", "guy">>

RECURSIVE RunTimers_CancelledWithOwner(_, _, _, _)
RunTimers_CancelledWithOwner(ts, en, kept, new) ==
  IF ts = <<>> THEN [enemy |-> en, timers |-> kept \o new]
  ELSE LET tm == Head(ts) IN
       IF ~en[tm.owner].exists
       THEN RunTimers_CancelledWithOwner(Tail(ts), en, kept, new)
       ELSE IF tm.t + 1 >= tm.time
       THEN RunTimers_CancelledWithOwner(Tail(ts),
                      [en EXCEPT ![tm.owner] = EnterState(@, tm.next)],
                      kept,
                      new \o NewTimers(en[tm.owner].kind, tm.owner, tm.next))
       ELSE RunTimers_CancelledWithOwner(Tail(ts), en,
                      Append(kept, [tm EXCEPT !.t = @ + 1]), new)

\* The k.wait timers in registration order: each advances by one frame; one
\* that reaches its time is removed and its continuation enters the next
\* state of its owner, whose onStateEnter handler may register a new timer.
\* A timer is not cancelled when its owner is destroyed.
RECURSIVE RunTimers(_, _, _, _)
RunTimers(ts, en, kept, new) ==
  IF ts = <<>> THEN [enemy |-> en, timers |-> kept \o new]
  ELSE LET tm == Head(ts) IN
       IF tm.t + 1 >= tm.time
       THEN RunTimers(Tail(ts),
                      [en EXCEPT ![tm.owner] = EnterState(@, tm.next)],
                      kept,
                      new \o NewTimers(en[tm.owner].kind, tm.owner, tm.next))
       ELSE RunTimers(Tail(ts), en, Append(kept, [tm EXCEPT !.t = @ + 1]), new)

\* ------------------------------------------------------------- map loader
\* The map data makeMap reads: mapData.layers is a list of layers, each with
\* a name and a list of objects {name, x, y, width, height}.
ColliderNames == {"wall", "exit"}

SpawnNames == {"player", "flame", "constructor"}

SeqsUpTo(S, n) == UNION {[1..k -> S] : k \in 0..n}

\* The layers a map may have, each by its name and the names of its objects.
LayerInputs ==
  {[name |-> "colliders", names |-> ns] : ns \in SeqsUpTo(ColliderNames, MaxObjects)}
    \cup {[name |-> "spawnpoints", names |-> ns] : ns \in SeqsUpTo(SpawnNames, MaxObjects)}
    \cup {[name |-> "image", names |-> ns] : ns \in {<<>>, <<"player">>}}

\* The objects of layer number li: every object of a map has its own
\* position, x being the number of its layer and y its number in the layer.
Objects(ns, li) ==
  [i \in 1..Len(ns) |->
     [name |-> ns[i], x |-> li, y |-> i, width |-> 2, height |-> 1]]

MapInputs ==
  {[layers |-> [li \in 1..Len(ls) |->
                  [name |-> ls[li].name, objects |-> Objects(ls[li].names, li)]]] :
     ls \in SeqsUpTo(LayerInputs, MaxLayers)}

\* spawnPoints is a plain object ({}): reading a property that it does not
\* own gives the one it inherits from Object.prototype, a function, for a
\* name such as "constructor".
ProtoNames == {"constructor"}

NoSpawnPoints == [n \in {} |-> <<>>]

\* What makeMap has built: the colliders added to the map object in order,
\* the spawnPoints object, the console.warn calls made, and whether it threw.
NoResult ==
  [failed |-> FALSE, map |-> <<>>, spawnPoints |-> NoSpawnPoints, warnings |-> <<>>]

\* The object added to the map for one object of a "colliders" layer.
Collider(c) ==
  [tag |-> IF c.name # "exit" THEN "platform" ELSE "exit",
   isStatic |-> c.name # "exit",
   x |-> c.x, y |-> c.y, width |-> c.width, height |-> c.height]

RECURSIVE AddColliders(_, _)
AddColliders(objs, r) ==
  IF objs = <<>> THEN r
  ELSE AddColliders(Tail(objs), [r EXCEPT !.map = Append(@, Collider(Head(objs)))])

Push(sp, o) ==
  [n \in DOMAIN sp |->
     IF n = o.name THEN Append(sp[n], [x |-> o.x, y |-> o.y]) ELSE sp[n]]

NewKey(sp, o) ==
  [n \in DOMAIN sp \cup {o.name} |->
     IF n = o.name THEN <<[x |-> o.x, y |-> o.y]>> ELSE sp[n]]

\* One object of a "spawnpoints" layer.  if (spawnPoints[name]) is true for
\* an own key, whose value is a list, and for an inherited property, whose
\* value has no push(): the call throws a TypeError.
AddSpawnPoint(o, r) ==
  IF o.name \in DOMAIN r.spawnPoints
  THEN [r EXCEPT !.spawnPoints = Push(@, o)]
  ELSE IF o.name \in ProtoNames
  THEN [r EXCEPT !.failed = TRUE]
  ELSE [r EXCEPT !.spawnPoints = NewKey(@, o)]

RECURSIVE AddSpawnPoints(_, _)
AddSpawnPoints(objs, r) ==
  IF objs = <<>> \/ r.failed THEN r
  ELSE AddSpawnPoints(Tail(objs), AddSpawnPoint(Head(objs), r))

AddLayer_UnknownThrows(layer, r) ==
  IF layer.name = "colliders" THEN AddColliders(layer.objects, r)
  ELSE IF layer.name = "spawnpoints" THEN AddSpawnPoints(layer.objects, r)
  ELSE [r EXCEPT !.failed = TRUE]

\* The body of the switch for one layer.
AddLayer(layer, r) ==
  IF layer.name = "colliders" THEN AddColliders(layer.objects, r)
  ELSE IF layer.name = "spawnpoints" THEN AddSpawnPoints(layer.objects, r)
  ELSE [r EXCEPT !.warnings = Append(@, layer.name)]

RECURSIVE AddLayers(_, _)
AddLayers(ls, r) ==
  IF ls = <<>> \/ r.failed THEN r
  ELSE AddLayers(Tail(ls), AddLayer(Head(ls), r))

\* makeMap: the map and the spawn points it returns; when it threw (failed),
\* what it had built by then, which the caller does not get: the promise is
\* rejected.
makeMap(md) == AddLayers(md.layers, NoResult)

\* The map of a level: a platform, the exit, and a spawn point of each of the
\* four groups the scene reads.
LevelData ==
  [layers |->
     <<[name |-> "colliders", objects |-> Objects(<<"wall", "exit">>, 1)],
       [name |-> "spawnpoints",
        objects |-> Objects(<<"player", "flame", "guy", "bird">>, 2)]>>]

\* makeMap as gameSetup awaits it: the fetch of the map data or the parse of
\* its JSON may fail, which rejects the promise of makeMap as a throw in its
\* loop does.
FetchOutcomes == {"ok", "unreachable", "malformed"}

LoadMap_EmptyOnError(fetch, md) ==
  IF fetch # "ok" THEN NoResult ELSE makeMap(md)

LoadMap(fetch, md) ==
  IF fetch # "ok" THEN [NoResult EXCEPT !.failed = TRUE] ELSE makeMap(md)

\* ------------------------------------------------------------ level setup
\* The objects the scene function creates from the spawn points sp, in order,
\* each with the spawn point it is made for (the position of an entity is
\* that point times the scale): the player, the camera rule, the hoppers, the
\* patrollers and the k.loop timers of the flyers.  Reading [0] of a missing
\* "player" list and iterating a missing list both throw a TypeError, which
\* ends the scene function with what it has created by then.
SpawnGroups == <<"flame", "guy", "bird">>

Made(kind, pt) == [kind |-> kind, x |-> pt.x, y |-> pt.y]

GroupObjects(sp, g) ==
  [i \in 1..Len(sp[g]) |-> Made(IF g = "bird" THEN "birdLoop" ELSE g, sp[g][i])]

RECURSIVE AddGroups_MissingIsEmpty(_, _, _)
AddGroups_MissingIsEmpty(gs, sp, r) ==
  IF gs = <<>> THEN r
  ELSE IF Head(gs) \notin DOMAIN sp
  THEN AddGroups_MissingIsEmpty(Tail(gs), sp, r)
  ELSE AddGroups_MissingIsEmpty(Tail(gs), sp,
                 [r EXCEPT !.objects = @ \o GroupObjects(sp, Head(gs))])

RECURSIVE AddGroups(_, _, _)
AddGroups(gs, sp, r) ==
  IF gs = <<>> \/ r.failed THEN r
  ELSE IF Head(gs) \notin DOMAIN sp
  THEN [r EXCEPT !.failed = TRUE]
  ELSE AddGroups(Tail(gs), sp,
                 [r EXCEPT !.objects = @ \o GroupObjects(sp, Head(gs))])

LevelObjects(sp) ==
  IF "player" \notin DOMAIN sp
  THEN [failed |-> TRUE, objects |-> <<>>]
  ELSE AddGroups(SpawnGroups, sp,
                 [failed |-> FALSE,
                  objects |-> <<Made("player", sp["player"][1]),
                                Made("camera", sp["player"][1])>>])

\* ----------------------------------------------------------------- camera
\* k.go() resets the camera: it has no position of its own (it shows the
\* centre of the screen) until k.camPos() gives it one.
NoCam == [isSet |-> FALSE, x |-> 0]

\* level1Layout.pos.x: the map object is made with k.pos(0).
LayoutX == 0

CamUpdate_NoClamp(c, x) == [isSet |-> TRUE, x |-> x + CamOffset]

\* The k.onUpdate handler of the scene: the camera follows the player.
CamUpdate(c, x) ==
  IF x < LayoutX + CamClamp THEN [isSet |-> TRUE, x |-> x + CamOffset] ELSE c

\* The player spawns one second of walking to the left of the bound of the
\* camera, so that its walk takes it onto the bound itself; the level ends
\* MaxWalk frames of walking to the right of the spawn point, and at the
\* spawn point to the left.
SpawnX == CamClamp - PlayerSpeed

RightWall == SpawnX + MaxWalk * (PlayerSpeed \div TicksPerSec)

\* player.move(v, 0) in one frame, stopped by the walls of the level.
Walk(x, v) ==
  LET nx == x + v \div TicksPerSec
  IN IF nx < SpawnX \/ nx > RightWall THEN x ELSE nx

\* ------------------------------------------------------------------ flight
\* Where the level follows the position of a flyer (posX of the flyer), it is
\* the x of the flyer on the screen, whose left edge is ScreenLeft.  The
\* camera of that level rests, and the player is between the left edge and
\* the spawn point of the flyer: the pull, which takes a flyer toward the
\* player, takes it no further to the right than its spawn point.
ScreenLeft == 0

SlowestBird == CHOOSE s \in BirdSpeeds : \A t \in BirdSpeeds : s <= t

BirdSpawnX == ScreenLeft + MaxFlight * SlowestBird

\* move(v, 0) in one frame: the distance covered at velocity v.
Step(v) == IF v < 0 THEN 0 - ((0 - v) \div TicksPerSec) ELSE v \div TicksPerSec

IsOffScreen_NoMargin(x) == x < ScreenLeft

\* isOffScreen() of k.offscreen({ distance: 400 }), for a flyer at the height
\* of the screen: the flyer is outside the screen by more than the distance.
\* A flyer is never beyond the right edge: it starts on the screen and the
\* pull takes it no further than the player.
IsOffScreen(x) == x < ScreenLeft - OffscreenDist

\* The update of a flyer at x in one frame, in the order in which the object
\* got its handlers: k.move, k.offscreen, then the onUpdate handler of
\* makeInhalable.
FlyerUpdate(p, en, x) ==
  LET x1 == x + Step(BirdMove(en))
      x2 == x1 + Step(Pull(p, en))
  IN IF IsOffScreen(x1)
     THEN [en |-> Destroy(en), x |-> x1]
     ELSE [en |-> en, x |-> IF x2 > BirdSpawnX THEN BirdSpawnX ELSE x2]

\* ------------------------------------------------------------------ scene
KindOf(e) == IF e \in Hoppers THEN "flame" ELSE IF e \in Patrollers THEN "guy" ELSE "bird"

\* k.scene("level-1"): the objects the scene function creates for the
\* enemies es of the level.  The initial state of a state component runs its
\* onStateEnter handler, so each enemy starts with the timer of its idle
\* state.
SceneEnemies(es) ==
  [e \in es |-> IF KindOf(e) = "flame" THEN makeFlameEnemy
                ELSE IF KindOf(e) = "guy" THEN makeGuyEnemy ELSE NoBird]

RECURSIVE SceneTimers(_, _)
SceneTimers(order, es) ==
  IF order = <<>> THEN <<>>
  ELSE (IF Head(order) \in es
        THEN NewTimers(KindOf(Head(order)), Head(order), "idle") ELSE <<>>)
         \o SceneTimers(Tail(order), es)

\* gameSetup once the scene of the level runs: the map data was fetched and
\* the scene function has made its objects.
Running ==
  [pc |-> "running", fetch |-> "ok",
   objects |-> LevelObjects(makeMap(LevelData).spawnPoints).objects]

ScenePlayer_KeepsHealth(old) == [makePlayer EXCEPT !.health = old.health]

\* The player the scene function makes: a new object, whatever the player of
\* the scene before was.
ScenePlayer(old) == makePlayer

\* History of the life of the current player, kept only on the levels that
\* start with it.  On the level of SpecSpit: the number of enemies the player
\* has consumed and the number of shootingStar objects its spits have
\* created.  On the level of SpecRespawn: the number of players made so far
\* (up to MaxLives) and the number of key events handled since the scene
\* function made the current one (up to MaxKeyEvents).
NoLife == [k \in {} |-> 0]

Count(l, k) == IF k \in DOMAIN l THEN [l EXCEPT ![k] = @ + 1] ELSE l

KeyEvent(l) ==
  IF "keyEvents" \in DOMAIN l /\ l["keyEvents"] < MaxKeyEvents
  THEN Count(l, "keyEvents") ELSE l

NewLife(l) ==
  [k \in DOMAIN l |->
     IF k = "lives" THEN (IF l[k] < MaxLives THEN l[k] + 1 ELSE l[k]) ELSE 0]

SceneActionState_Reset(as) ==
  [moveLeft |-> FALSE, moveRight |-> FALSE, inhale |-> FALSE]

\* The module-level actionState after the scene function has run: nothing in
\* the scene function, makePlayer or setControls assigns it outside the key
\* handlers.
SceneActionState(as) == as

Level(es) ==
  /\ actionState = [moveLeft |-> FALSE, moveRight |-> FALSE, inhale |-> FALSE]
  /\ player = makePlayer
  /\ enemy = SceneEnemies(es)
  /\ vel = [e \in es |-> 0]
  /\ timers = SceneTimers(EnemyOrder, es)
  /\ stars = <<>>
  /\ goTo = NoScene
  /\ held = {}
  /\ mapData = LevelData
  /\ level = [loaded |-> TRUE, result |-> makeMap(LevelData)]
  /\ cam = NoCam
  /\ posX = [e \in {} |-> 0]
  /\ tweens = <<>>
  /\ setup = Running

Init == Level(Enemies) /\ life = NoLife

InitHopper == Level(Hoppers) /\ life = NoLife

InitPatroller == Level(Patrollers) /\ life = NoLife

InitFlyer == Level(Flyers) /\ life = NoLife

\* ---------------------------------------------------------------- actions
KeyDown_MovesPlayer(key) ==
  /\ goTo = NoScene
  /\ IF key \in DOMAIN keyMappings
     THEN /\ actionState' = SetAction(actionState, keyMappings[key], TRUE)
          /\ vel' = IF "player" \in DOMAIN vel /\ keyMappings[key] # "inhale"
                    THEN [vel EXCEPT !["player"] =
                            IF keyMappings[key] = "moveLeft"
                            THEN 0 - PlayerSpeed ELSE PlayerSpeed]
                    ELSE vel
     ELSE UNCHANGED <<actionState, vel>>
  /\ life' = KeyEvent(life)
  /\ UNCHANGED <<player, enemy, timers, stars, goTo, held, mapData, level, cam, posX, tweens, setup>>

\* k.onKeyDown
KeyDown(key) ==
  /\ goTo = NoScene
  /\ IF key \in DOMAIN keyMappings
     THEN actionState' = SetAction(actionState, keyMappings[key], TRUE)
     ELSE UNCHANGED actionState
  /\ life' = KeyEvent(life)
  /\ UNCHANGED <<player, enemy, vel, timers, stars, goTo, held, mapData, level, cam, posX, tweens, setup>>

\* The k.onKeyRelease handler.  A spit is possible only while fewer than
\* MaxStars projectiles exist.
OnKeyRelease(key) ==
  /\ goTo = NoScene
  /\ (key \in {"z", "1"} /\ player.isFull) => Len(stars) < MaxStars
  /\ IF key \in DOMAIN keyMappings
     THEN /\ actionState' = SetAction(actionState, keyMappings[key], FALSE)
          /\ IF key \in {"z", "1"}
             THEN IF player.isFull
                  THEN /\ stars' = Append(stars, ShootingStar(player))
                       /\ player' = Spit(player)
                       /\ life' = Count(KeyEvent(life), "created")
                  ELSE /\ player' = StopInhaling(player)
                       /\ life' = KeyEvent(life)
                       /\ UNCHANGED stars
             ELSE /\ life' = KeyEvent(life)
                  /\ UNCHANGED <<player, stars>>
     ELSE /\ life' = KeyEvent(life)
          /\ UNCHANGED <<actionState, player, stars>>
  /\ UNCHANGED <<enemy, vel, timers, goTo, mapData, level, cam, posX, tweens, setup>>

\* k.onKeyRelease
KeyRelease(key) ==
  /\ OnKeyRelease(key)
  /\ UNCHANGED held

\* player.onCollide("enemy")
CollideEnemy(e) ==
  /\ goTo = NoScene
  /\ player.exists
  /\ enemy[e].exists
  /\ IF IsConsume(player, enemy[e])
     THEN /\ player' = Consume(player)
          /\ enemy' = [enemy EXCEPT ![e] = Destroy(@)]
          /\ life' = Count(life, "consumed")
          /\ UNCHANGED <<goTo, tweens>>
     ELSE IF IsDead(player)
     THEN /\ player' = [player EXCEPT !.exists = FALSE]
          /\ goTo' = Go("level-1")
          /\ UNCHANGED <<enemy, tweens, life>>
     ELSE /\ player' = Hurt(player)
          /\ tweens' = Flash(tweens, Hurt(player))
          /\ UNCHANGED <<enemy, goTo, life>>
  /\ UNCHANGED <<actionState, vel, timers, stars, held, mapData, level, cam, posX, setup>>

\* player.onCollide("exit")
CollideExit ==
  /\ goTo = NoScene
  /\ player.exists
  /\ \E i \in 1..Len(level.result.map) : level.result.map[i].tag = "exit"
  /\ goTo' = Go("level-2")
  /\ UNCHANGED <<life, actionState, player, enemy, vel, timers, stars, held, mapData, level,
                 cam, posX, tweens, setup>>

\* The update handlers of the tweens in progress, in one frame.
TweenUpdate ==
  /\ goTo = NoScene
  /\ tweens # <<>>
  /\ LET r == RunTweens(tweens, player.opacity, <<>>, 0)
     IN /\ player' = [player EXCEPT !.opacity = r.opacity]
        /\ tweens' = r.tweens
  /\ UNCHANGED <<life, actionState, enemy, vel, timers, stars, goTo, held, mapData, level,
                 cam, posX, setup>>

\* enemy.onCollide("inhaleZone")
ZoneEnter(e) ==
  /\ goTo = NoScene
  /\ enemy[e].exists
  /\ ~enemy[e].inZone
  /\ enemy' = [enemy EXCEPT ![e] = SetInhalable([@ EXCEPT !.inZone = TRUE], TRUE)]
  /\ UNCHANGED <<life, actionState, player, vel, timers, stars, goTo, held, mapData, level, cam, posX, tweens, setup>>

\* enemy.onCollideEnd("inhaleZone")
ZoneLeave(e) ==
  /\ goTo = NoScene
  /\ enemy[e].exists
  /\ enemy[e].inZone
  /\ enemy' = [enemy EXCEPT ![e] = SetInhalable([@ EXCEPT !.inZone = FALSE], FALSE)]
  /\ UNCHANGED <<life, actionState, player, vel, timers, stars, goTo, held, mapData, level, cam, posX, tweens, setup>>

\* enemy.onCollide("shootingStar")
StarHitsEnemy(e, i) ==
  /\ goTo = NoScene
  /\ enemy[e].exists
  /\ i \in 1..Len(stars)
  /\ enemy' = [enemy EXCEPT ![e] = Destroy(@)]
  /\ stars' = RemoveAt(stars, i)
  /\ UNCHANGED <<life, actionState, player, vel, timers, goTo, held, mapData, level, cam, posX, tweens, setup>>

\* shootingStar.onCollide("platform")
StarHitsPlatform(i) ==
  /\ goTo = NoScene
  /\ i \in 1..Len(stars)
  /\ stars' = RemoveAt(stars, i)
  /\ UNCHANGED <<life, actionState, player, enemy, vel, timers, goTo, held, mapData, level, cam, posX, tweens, setup>>

\* Physics of the engine: a hopper in the air comes down on a platform.
Land(e) ==
  /\ goTo = NoScene
  /\ enemy[e].exists
  /\ enemy[e].kind = "flame"
  /\ ~enemy[e].grounded
  /\ enemy' = [enemy EXCEPT ![e].grounded = TRUE]
  /\ UNCHANGED <<life, actionState, player, vel, timers, stars, goTo, held, mapData, level, cam, posX, tweens, setup>>

\* The callback of the k.loop of a "bird" spawn point: a flyer is created
\* with one of the available speeds.  The engine calls it every 10 seconds;
\* the model lets it run at any time at which the flyer before is gone.
SpawnBird(b, speed) ==
  /\ goTo = NoScene
  /\ b \in DOMAIN enemy \cap Flyers
  /\ ~enemy[b].exists
  /\ enemy' = [enemy EXCEPT ![b] = makeBirdEnemy(speed)]
  /\ vel' = [vel EXCEPT ![b] = 0]
  /\ posX' = IF b \in DOMAIN posX THEN [posX EXCEPT ![b] = BirdSpawnX] ELSE posX
  /\ UNCHANGED <<life, actionState, player, timers, stars, goTo, held, mapData, level, cam, tweens, setup>>

\* The update of the k.offscreen component of a flyer in a frame in which the
\* flyer is off the screen by more than its distance: it destroys the flyer.
\* On a level that follows the position of the flyer the test is a part of
\* EnemyOnUpdate.
BirdOffscreen(b) ==
  /\ goTo = NoScene
  /\ b \in DOMAIN enemy \cap Flyers
  /\ b \notin DOMAIN posX
  /\ enemy[b].exists
  /\ enemy' = [enemy EXCEPT ![b] = Destroy(@)]
  /\ UNCHANGED <<life, actionState, player, vel, timers, stars, goTo, held, mapData, level, cam, posX, tweens, setup>>

\* The k.onKeyPress handler: 'x' and 'space' make the player jump.
OnKeyPress(key) ==
  /\ goTo = NoScene
  /\ player' = IF key \in JumpKeys THEN DoubleJump(player) ELSE player
  /\ UNCHANGED <<life, actionState, enemy, vel, timers, stars, goTo, mapData, level,
                 cam, posX, tweens, setup>>

\* The engine's dispatch of a key that goes down: the key is held from now
\* on, and the k.onKeyPress handler runs.
PressKey(key) ==
  /\ key \notin held
  /\ held' = held \cup {key}
  /\ OnKeyPress(key)

\* Physics of the engine: the player comes down on a platform, which
\* triggers the "ground" event of its body.
PlayerLands ==
  /\ goTo = NoScene
  /\ player.exists
  /\ ~player.grounded
  /\ player' = OnGround(player)
  /\ UNCHANGED <<life, actionState, enemy, vel, timers, stars, goTo, held, mapData, level,
                 cam, posX, tweens, setup>>

\* Physics of the engine: the player walks off a platform.
PlayerFalls ==
  /\ goTo = NoScene
  /\ player.exists
  /\ player.grounded
  /\ player' = [player EXCEPT !.grounded = FALSE]
  /\ UNCHANGED <<life, actionState, enemy, vel, timers, stars, goTo, held, mapData, level,
                 cam, posX, tweens, setup>>

\* The engine's dispatch of k.onKeyDown: in every frame, for each held key.
HeldKeyDown(key) ==
  /\ key \in held
  /\ KeyDown(key)

\* The engine's dispatch of a key that goes up: k.onKeyRelease for that key.
ReleaseKey(key) ==
  /\ key \in held
  /\ held' = held \ {key}
  /\ OnKeyRelease(key)

\* The update of the player object in a frame: the gravity of k.body() moves
\* it down by dy, then player.onUpdate makes the fall-out check.
PlayerOnUpdate(dy) ==
  /\ goTo = NoScene
  /\ player.exists
  /\ LET p == [player EXCEPT !.posY = @ + dy]
     IN /\ player' = p
        /\ goTo' = IF FellOut(p) THEN Go("level-1") ELSE goTo
  /\ UNCHANGED <<life, actionState, enemy, vel, timers, stars, held, mapData, level, cam, posX, tweens, setup>>

\* k.onUpdate of setControls.
OnUpdateControls ==
  /\ goTo = NoScene
  /\ player.exists
  /\ player' = ControlsUpdate(player, actionState)
  /\ vel' = IF "player" \in DOMAIN vel
            THEN [vel EXCEPT !["player"] = PlayerVel(actionState)] ELSE vel
  /\ posX' = IF "player" \in DOMAIN posX
             THEN [posX EXCEPT !["player"] = Walk(@, PlayerVel(actionState))] ELSE posX
  /\ UNCHANGED <<life, actionState, enemy, timers, stars, goTo, held, mapData, level, cam,
                 tweens, setup>>

\* The update of one live enemy in a frame: the onStateUpdate handler of its
\* state, then the onUpdate handler of makeInhalable.  A hopper that lands
\* enters idle, whose onStateEnter handler registers the idle timer.
EnemyOnUpdate(e) ==
  /\ goTo = NoScene
  /\ enemy[e].exists
  /\ IF e \in DOMAIN posX
     THEN LET r == FlyerUpdate(player, enemy[e], posX[e])
          IN /\ enemy' = [enemy EXCEPT ![e] = r.en]
             /\ posX' = [posX EXCEPT ![e] = r.x]
     ELSE /\ enemy' = [enemy EXCEPT ![e] = StateUpdate(@)]
          /\ UNCHANGED posX
  /\ timers' = IF Lands(enemy[e])
               THEN timers \o NewTimers(enemy[e].kind, e, "idle") ELSE timers
  /\ vel' = [vel EXCEPT ![e] = FrameVel(player, enemy[e])]
  /\ UNCHANGED <<life, actionState, player, stars, goTo, held, mapData, level, cam, tweens, setup>>

\* One frame of time: every k.wait timer advances and the due ones fire.
Tick ==
  /\ goTo = NoScene
  /\ LET r == RunTimers(timers, [e \in DOMAIN enemy |-> Age(enemy[e])], <<>>, <<>>)
     IN /\ enemy' = r.enemy
        /\ timers' = r.timers
  /\ UNCHANGED <<life, actionState, player, vel, stars, goTo, held, mapData, level, cam, posX, tweens, setup>>

\* End of a frame in which k.go("level-1") was called: every object, handler
\* and timer of the scene is removed and the scene function runs again.  The
\* module-level actionState is not part of the scene.
SceneSwitch ==
  /\ goTo = "level-1"
  /\ LET made == LevelObjects(level.result.spawnPoints)
     IN /\ setup' = [setup EXCEPT !.pc = IF made.failed THEN "crashed" ELSE "running",
                                  !.objects = made.objects]
        /\ goTo' = IF made.failed THEN Crashed ELSE NoScene
        /\ player' = IF made.objects # <<>> THEN ScenePlayer(player) ELSE player
        /\ life' = IF made.objects # <<>> THEN NewLife(life) ELSE life
  /\ enemy' = SceneEnemies(DOMAIN enemy)
  /\ vel' = [e \in DOMAIN vel |-> 0]
  /\ timers' = SceneTimers(EnemyOrder, DOMAIN enemy)
  /\ stars' = <<>>
  /\ cam' = NoCam
  /\ posX' = [e \in DOMAIN posX |-> IF e = "player" THEN SpawnX ELSE BirdSpawnX]
  /\ tweens' = <<>>
  /\ actionState' = SceneActionState(actionState)
  /\ UNCHANGED <<held, mapData, level>>

\* gameSetup up to the await of makeMap: the map data is fetched and loaded.
\* A makeMap that throws rejects the promise gameSetup awaits, which ends
\* gameSetup.
MakeMap ==
  /\ ~level.loaded
  /\ setup.pc = "makeMap"
  /\ LET result == LoadMap(setup.fetch, mapData)
     IN /\ level' = [loaded |-> TRUE, result |-> result]
        /\ setup' = [setup EXCEPT !.pc = IF result.failed THEN "rejected" ELSE "loaded"]
  /\ UNCHANGED <<life, actionState, player, enemy, vel, timers, stars, goTo, held, mapData,
                 cam, posX, tweens>>

\* gameSetup after the await of makeMap: k.scene("level-1", ...) registers
\* the scene function and k.go("level-1") asks for the scene.
GameSetupResume ==
  /\ setup.pc = "loaded"
  /\ setup' = [setup EXCEPT !.pc = "go"]
  /\ goTo' = Go("level-1")
  /\ UNCHANGED <<life, actionState, player, enemy, vel, timers, stars, held, mapData, level,
                 cam, posX, tweens>>

\* The k.onUpdate handler of the scene, on a level that follows the position
\* of the player.
CameraOnUpdate ==
  /\ goTo = NoScene
  /\ "player" \in DOMAIN posX
  /\ cam' = CamUpdate(cam, posX["player"])
  /\ UNCHANGED <<life, actionState, player, enemy, vel, timers, stars, goTo, held, mapData,
                 level, posX, tweens, setup>>

Next ==
  \/ \E key \in Keys : KeyDown(key)
  \/ \E key \in Keys : KeyRelease(key)
  \/ \E e \in DOMAIN enemy : CollideEnemy(e)
  \/ \E e \in DOMAIN enemy : ZoneEnter(e)
  \/ \E e \in DOMAIN enemy : ZoneLeave(e)
  \/ \E e \in DOMAIN enemy : \E i \in 1..MaxStars : StarHitsEnemy(e, i)
  \/ \E i \in 1..MaxStars : StarHitsPlatform(i)
  \/ \E e \in DOMAIN enemy : Land(e)
  \/ \E b \in DOMAIN enemy : \E speed \in BirdSpeeds : SpawnBird(b, speed)
  \/ \E b \in DOMAIN enemy : BirdOffscreen(b)
  \/ \E dy \in 0..MaxFall : PlayerOnUpdate(dy)
  \/ OnUpdateControls
  \/ \E e \in DOMAIN enemy : EnemyOnUpdate(e)
  \/ Tick
  \/ SceneSwitch
  \/ CollideExit
  \/ TweenUpdate
  \/ \E key \in JumpKeys : OnKeyPress(key)
  \/ PlayerLands
  \/ PlayerFalls

Spec == Init /\ [][Next]_vars

\* The handlers of the player and the events that reach them.
NextPlayer ==
  \/ \E key \in Keys : KeyDown(key)
  \/ \E key \in Keys : KeyRelease(key)
  \/ \E e \in DOMAIN enemy : CollideEnemy(e)
  \/ \E e \in DOMAIN enemy : ZoneEnter(e)
  \/ \E e \in DOMAIN enemy : ZoneLeave(e)
  \/ \E e \in DOMAIN enemy : \E i \in 1..MaxStars : StarHitsEnemy(e, i)
  \/ \E i \in 1..MaxStars : StarHitsPlatform(i)
  \/ \E dy \in 0..MaxFall : PlayerOnUpdate(dy)
  \/ OnUpdateControls
  \/ SceneSwitch

SpecPlayer == Init /\ [][NextPlayer]_vars

\* The handlers that act on a patroller, and what makes the player inhale.
NextPatroller ==
  \/ \E key \in Keys : KeyDown(key)
  \/ \E key \in Keys : KeyRelease(key)
  \/ \E e \in DOMAIN enemy : CollideEnemy(e)
  \/ \E e \in DOMAIN enemy : ZoneEnter(e)
  \/ \E e \in DOMAIN enemy : ZoneLeave(e)
  \/ OnUpdateControls
  \/ \E e \in DOMAIN enemy : EnemyOnUpdate(e)
  \/ Tick
  \/ SceneSwitch

SpecPatroller == InitPatroller /\ [][NextPatroller]_vars

\* The handlers that act on a hopper, and what makes the player inhale.
NextHopper ==
  \/ \E key \in Keys : KeyDown(key)
  \/ \E key \in Keys : KeyRelease(key)
  \/ \E e \in DOMAIN enemy : CollideEnemy(e)
  \/ \E e \in DOMAIN enemy : ZoneEnter(e)
  \/ \E e \in DOMAIN enemy : ZoneLeave(e)
  \/ \E e \in DOMAIN enemy : Land(e)
  \/ OnUpdateControls
  \/ \E e \in DOMAIN enemy : EnemyOnUpdate(e)
  \/ Tick
  \/ SceneSwitch

SpecHopper == InitHopper /\ [][NextHopper]_vars

\* The handlers that act on an enemy, on a level with one kind of enemy.
InitInhalable == InitHopper \/ InitPatroller \/ InitFlyer

NextInhalable ==
  \/ \E key \in Keys : KeyDown(key)
  \/ \E key \in Keys : KeyRelease(key)
  \/ \E e \in DOMAIN enemy : CollideEnemy(e)
  \/ \E e \in DOMAIN enemy : ZoneEnter(e)
  \/ \E e \in DOMAIN enemy : ZoneLeave(e)
  \/ \E e \in DOMAIN enemy : \E i \in 1..MaxStars : StarHitsEnemy(e, i)
  \/ \E i \in 1..MaxStars : StarHitsPlatform(i)
  \/ \E e \in DOMAIN enemy : Land(e)
  \/ \E b \in DOMAIN enemy : \E speed \in BirdSpeeds : SpawnBird(b, speed)
  \/ \E b \in DOMAIN enemy : BirdOffscreen(b)
  \/ OnUpdateControls
  \/ \E e \in DOMAIN enemy : EnemyOnUpdate(e)
  \/ Tick
  \/ SceneSwitch

SpecInhalable == InitInhalable /\ [][NextInhalable]_vars

\* Shooting: the level with the hopper and the patroller, the inhale key, and
\* the handlers that act on the enemies and on the projectiles.
NextShoot ==
  \/ \E key \in {"z"} : KeyDown(key)
  \/ \E key \in {"z"} : KeyRelease(key)
  \/ \E e \in DOMAIN enemy : CollideEnemy(e)
  \/ \E e \in DOMAIN enemy : ZoneEnter(e)
  \/ \E e \in DOMAIN enemy : ZoneLeave(e)
  \/ \E e \in DOMAIN enemy : \E i \in 1..MaxStars : StarHitsEnemy(e, i)
  \/ \E i \in 1..MaxStars : StarHitsPlatform(i)
  \/ \E e \in DOMAIN enemy : Land(e)
  \/ OnUpdateControls
  \/ \E e \in DOMAIN enemy : EnemyOnUpdate(e)
  \/ Tick
  \/ SceneSwitch

SpecShoot == Init /\ [][NextShoot]_vars

\* The keyboard: the scene with the player alone, the keys the player holds,
\* and the velocity the per-frame update moves the player at (vel["player"]).
InitKeys ==
  /\ actionState = [moveLeft |-> FALSE, moveRight |-> FALSE, inhale |-> FALSE]
  /\ player = makePlayer
  /\ enemy = SceneEnemies({})
  /\ vel = [e \in {"player"} |-> 0]
  /\ timers = <<>>
  /\ stars = <<>>
  /\ goTo = NoScene
  /\ held = {}
  /\ mapData = LevelData
  /\ level = [loaded |-> TRUE, result |-> makeMap(LevelData)]
  /\ cam = NoCam
  /\ posX = [e \in {} |-> 0]
  /\ tweens = <<>>
  /\ setup = Running
  /\ life = NoLife

NextKeys ==
  \/ \E key \in Keys : PressKey(key)
  \/ \E key \in Keys : HeldKeyDown(key)
  \/ \E key \in Keys : ReleaseKey(key)
  \/ OnUpdateControls

SpecKeys == InitKeys /\ [][NextKeys]_vars

\* The program before makeMap has returned, for each map data it may be given:
\* no scene has run, so there is no player and no enemy yet.
InitMap ==
  /\ mapData \in MapInputs
  /\ level = [loaded |-> FALSE, result |-> NoResult]
  /\ actionState = [moveLeft |-> FALSE, moveRight |-> FALSE, inhale |-> FALSE]
  /\ player = [makePlayer EXCEPT !.exists = FALSE]
  /\ enemy = [e \in {} |-> makeGuyEnemy]
  /\ vel = [e \in {} |-> 0]
  /\ timers = <<>>
  /\ stars = <<>>
  /\ goTo = NoScene
  /\ held = {}
  /\ cam = NoCam
  /\ posX = [e \in {} |-> 0]
  /\ tweens = <<>>
  /\ setup = [pc |-> "makeMap", fetch |-> "ok", objects |-> <<>>]
  /\ life = NoLife

NextMap == MakeMap

SpecMap == InitMap /\ [][NextMap]_vars

\* The handlers of the player with the collision with the exit.
NextExit ==
  \/ NextPlayer
  \/ CollideExit

SpecExit == Init /\ [][NextExit]_vars

\* The camera: the player alone on a level that follows its horizontal
\* position (posX["player"]), the keys that make it walk, and the update
\* handlers of a frame.
WalkKeys == {"left", "right"}

InitCamera ==
  /\ actionState = [moveLeft |-> FALSE, moveRight |-> FALSE, inhale |-> FALSE]
  /\ player = makePlayer
  /\ enemy = SceneEnemies({})
  /\ vel = [e \in {"player"} |-> 0]
  /\ timers = <<>>
  /\ stars = <<>>
  /\ goTo = NoScene
  /\ held = {}
  /\ mapData = LevelData
  /\ level = [loaded |-> TRUE, result |-> makeMap(LevelData)]
  /\ cam = NoCam
  /\ posX = [e \in {"player"} |-> SpawnX]
  /\ tweens = <<>>
  /\ setup = Running
  /\ life = NoLife

NextCamera ==
  \/ \E key \in WalkKeys : PressKey(key)
  \/ \E key \in WalkKeys : HeldKeyDown(key)
  \/ \E key \in WalkKeys : ReleaseKey(key)
  \/ OnUpdateControls
  \/ CameraOnUpdate

SpecCamera == InitCamera /\ [][NextCamera]_vars

\* The lives of the player: the keys the player holds while it is hurt, dies
\* or falls out, and the restart of the level.
RestartKeys == {"left", "right", "z"}

NextRestart ==
  \/ \E key \in RestartKeys : PressKey(key)
  \/ \E key \in RestartKeys : HeldKeyDown(key)
  \/ \E key \in RestartKeys : ReleaseKey(key)
  \/ \E e \in DOMAIN enemy : CollideEnemy(e)
  \/ \E dy \in 0..MaxFall : PlayerOnUpdate(dy)
  \/ OnUpdateControls
  \/ SceneSwitch

SpecRestart == Init /\ [][NextRestart]_vars

\* The same, with the history of the lives: the first player is the first
\* one counted and has handled no key event.
InitRespawn == Level(Enemies) /\ life = [lives |-> 1, keyEvents |-> 0]

NextRespawn == NextRestart

SpecRespawn == InitRespawn /\ [][NextRespawn]_vars

\* The damage flash: the handlers of the player with the updates of the
\* tweens that its collisions start.
NextFlash ==
  \/ NextPlayer
  \/ TweenUpdate

SpecFlash == Init /\ [][NextFlash]_vars

\* The handlers of the player on the level with the hopper alone: nothing
\* but the hopper hurts the player, and nothing can be spat before the hopper
\* is consumed.
NextConsume ==
  \/ \E key \in Keys : KeyDown(key)
  \/ \E key \in Keys : KeyRelease(key)
  \/ \E e \in DOMAIN enemy : CollideEnemy(e)
  \/ \E e \in DOMAIN enemy : ZoneEnter(e)
  \/ \E e \in DOMAIN enemy : ZoneLeave(e)
  \/ \E i \in 1..MaxStars : StarHitsPlatform(i)
  \/ \E dy \in 0..MaxFall : PlayerOnUpdate(dy)
  \/ OnUpdateControls
  \/ SceneSwitch

SpecConsume == InitHopper /\ [][NextConsume]_vars

\* The spits of the player: the handlers of the player on the level with
\* every enemy, with the history of the life of the player.
InitSpit == Level(Enemies) /\ life = [consumed |-> 0, created |-> 0]

NextSpit == NextPlayer

SpecSpit == InitSpit /\ [][NextSpit]_vars

\* The flight of a flyer: the level with the flyer of one "bird" spawn point,
\* whose position the level follows, the keys that make the player face left
\* and inhale, and the handlers that move the flyer.
FlightKeys == {"left", "z"}

InitFlight ==
  /\ actionState = [moveLeft |-> FALSE, moveRight |-> FALSE, inhale |-> FALSE]
  /\ player = makePlayer
  /\ enemy = SceneEnemies(Flyers)
  /\ vel = [e \in Flyers |-> 0]
  /\ timers = <<>>
  /\ stars = <<>>
  /\ goTo = NoScene
  /\ held = {}
  /\ mapData = LevelData
  /\ level = [loaded |-> TRUE, result |-> makeMap(LevelData)]
  /\ cam = NoCam
  /\ posX = [e \in Flyers |-> BirdSpawnX]
  /\ tweens = <<>>
  /\ setup = Running
  /\ life = NoLife

NextFlight ==
  \/ \E key \in FlightKeys : KeyDown(key)
  \/ \E key \in FlightKeys : KeyRelease(key)
  \/ \E e \in DOMAIN enemy : ZoneEnter(e)
  \/ \E e \in DOMAIN enemy : ZoneLeave(e)
  \/ \E b \in DOMAIN enemy : \E speed \in BirdSpeeds : SpawnBird(b, speed)
  \/ OnUpdateControls
  \/ \E e \in DOMAIN enemy : EnemyOnUpdate(e)

\* The engine runs a frame after the other as long as the game runs: a flyer
\* that exists is updated in every frame.
SpecFlight ==
  /\ InitFlight
  /\ [][NextFlight]_vars
  /\ \A b \in Flyers : WF_vars(EnemyOnUpdate(b))

\* Jumping: the player alone, the jump keys and the inhale key, and the
\* physics that takes the player to the ground and off it.
NextJump ==
  \/ \E key \in JumpKeys \cup {"z"} : PressKey(key)
  \/ \E key \in JumpKeys \cup {"z"} : HeldKeyDown(key)
  \/ \E key \in JumpKeys \cup {"z"} : ReleaseKey(key)
  \/ PlayerLands
  \/ PlayerFalls

SpecJump == InitKeys /\ [][NextJump]_vars

\* gameSetup from its start, for each outcome of the fetch and each map data
\* with up to MaxSpawns spawn points of each name: the load of the map, the
\* registration of the scene and its first run.
SetupNames == <<"player", "flame", "guy", "bird", "constructor">>

RECURSIVE SpawnList(_, _)
SpawnList(names, count) ==
  IF names = <<>> THEN <<>>
  ELSE [i \in 1..count[Head(names)] |-> Head(names)] \o SpawnList(Tail(names), count)

SetupInputs ==
  {[layers |->
      <<[name |-> "colliders", objects |-> Objects(<<"wall", "exit">>, 1)],
        [name |-> "spawnpoints", objects |-> Objects(SpawnList(SetupNames, count), 2)]>>] :
     count \in [{SetupNames[i] : i \in 1..Len(SetupNames)} -> 0..MaxSpawns]}

InitSetup ==
  /\ mapData \in SetupInputs
  /\ setup \in [pc : {"makeMap"}, fetch : FetchOutcomes, objects : {<<>>}]
  /\ level = [loaded |-> FALSE, result |-> NoResult]
  /\ actionState = [moveLeft |-> FALSE, moveRight |-> FALSE, inhale |-> FALSE]
  /\ player = [makePlayer EXCEPT !.exists = FALSE]
  /\ enemy = [e \in {} |-> makeGuyEnemy]
  /\ vel = [e \in {} |-> 0]
  /\ timers = <<>>
  /\ stars = <<>>
  /\ goTo = NoScene
  /\ held = {}
  /\ cam = NoCam
  /\ posX = [e \in {} |-> 0]
  /\ tweens = <<>>
  /\ life = NoLife

NextSetup ==
  \/ MakeMap
  \/ GameSetupResume
  \/ SceneSwitch

SpecSetup == InitSetup /\ [][NextSetup]_vars

TypeOK ==
  /\ actionState \in [moveLeft : BOOLEAN, moveRight : BOOLEAN, inhale : BOOLEAN]
  /\ player.health \in 0..StartHealth
  /\ player.direction \in {"left", "right"}
  /\ player.posY \in SpawnY..(SpawnY + MaxFall)
  /\ DOMAIN enemy \subseteq Enemies \cup Flyers
  /\ DOMAIN enemy \subseteq DOMAIN vel
  /\ DOMAIN vel \subseteq DOMAIN enemy \cup {"player"}
  /\ \A e \in DOMAIN enemy : enemy[e].isInhalable = enemy[e].inZone
  /\ Len(stars) <= MaxStars
  /\ goTo \in {NoScene, "level-1", SceneNotFound, Crashed}
  /\ held \subseteq Keys \cup JumpKeys
  /\ player.jumpsLeft \in 0..NumJumps
  /\ player.opacity \in 0..100
  /\ cam.isSet \in BOOLEAN
  /\ DOMAIN posX \subseteq {"player"} \cup Flyers
  /\ setup.pc \in {"makeMap", "loaded", "rejected", "go", "running", "crashed"}
  /\ level.loaded \in BOOLEAN
  /\ level.result.failed \in BOOLEAN

\* ================================================================ claims

\* C1: whenever the player collides with an enemy while player.isInhaling
\* and the enemy's isInhalable are true, that collision step destroys the
\* enemy, sets isFull, clears isInhaling and leaves the health (and the
\* player) alone.
C1_InhaleThenConsume ==
  [][\A e \in DOMAIN enemy :
       (CollideEnemy(e) /\ player.isInhaling /\ enemy[e].isInhalable)
         => /\ ~enemy'[e].exists
            /\ player'.isFull
            /\ ~player'.isInhaling
            /\ player'.health = player.health
            /\ player'.exists
            /\ goTo' = NoScene]_vars

\* An enemy was destroyed while inhalable and the player is full, with all
\* of its health and the inhale key still held.
C1_Witness ==
  /\ player.isFull
  /\ ~player.isInhaling
  /\ player.health = 3
  /\ actionState.inhale
  /\ \E e \in DOMAIN enemy : ~enemy[e].exists /\ enemy[e].isInhalable

\* C2: death by enemy damage happens on the damaging collision on which the
\* health reaches 0: that step destroys the player and restarts the level.
C2_DeathWhenHealthReachesZero ==
  [][(player.health > 0 /\ player'.health = 0)
       => (~player'.exists /\ goTo' = "level-1")]_vars

\* C3: an enemy collision that is not a consume takes exactly one health
\* point and leaves the player in the scene when health > 0, and destroys
\* the player and restarts level-1 when health = 0.
C3_Damage ==
  [][\A e \in DOMAIN enemy :
       (CollideEnemy(e) /\ ~(player.isInhaling /\ enemy[e].isInhalable))
         => IF player.health > 0
            THEN /\ player'.health = player.health - 1
                 /\ player'.exists
                 /\ goTo' = NoScene
            ELSE /\ player.health = 0
                 /\ ~player'.exists
                 /\ goTo' = "level-1"]_vars

\* The player was destroyed by a collision after losing all three points.
C3_Witness == ~player.exists /\ goTo = "level-1" /\ player.health = 0

\* C4: releasing 'z' or '1' while isFull adds exactly one projectile, with
\* speed 800 and the direction the player faces at the release, and clears
\* isFull in the same step; releasing it while not full adds none.  (The
\* model allows a spit only while fewer than MaxStars projectiles exist.)
C4_Spit ==
  [][\A key \in {"z", "1"} :
       KeyRelease(key)
         => IF player.isFull
            THEN /\ Len(stars') = Len(stars) + 1
                 /\ SubSeq(stars', 1, Len(stars)) = stars
                 /\ stars'[Len(stars')] = [dir |-> player.direction, speed |-> 800]
                 /\ ~player'.isFull
            ELSE stars' = stars]_vars

\* A projectile flying left exists and the player is no longer full.
C4_Witness ==
  /\ Len(stars) >= 1
  /\ stars[1].dir = "left"
  /\ ~player.isFull
  /\ ~actionState.inhale

\* C5: while isFull is true no enemy is consumed: every enemy collision
\* costs a health point or is fatal, whatever the inhale key and the
\* enemy's isInhalable are.
C5_OneShotConsume ==
  [][\A e \in DOMAIN enemy :
       (CollideEnemy(e) /\ player.isFull)
         => /\ enemy'[e].exists
            /\ player'.isFull
            /\ \/ (player'.health = player.health - 1 /\ player'.exists)
               \/ (~player'.exists /\ goTo' = "level-1")]_vars

\* A full player was killed by a collision with the only enemy left, which
\* was inhalable, while the inhale key was held.
C5_Witness ==
  /\ player.isFull
  /\ ~player.exists
  /\ actionState.inhale
  /\ \E e \in DOMAIN enemy :
       /\ enemy[e].exists
       /\ enemy[e].isInhalable
       /\ \A f \in DOMAIN enemy \ {e} : ~enemy[f].exists

\* C6: player.isInhaling is true only if the inhale flag of the actionState
\* is set and player.isFull is false.
C6_InhalingOnlyHeldAndNotFull ==
  player.isInhaling => (actionState.inhale /\ ~player.isFull)

\* The player inhales again after an earlier consume and spit.
C6_Witness ==
  /\ player.isInhaling
  /\ player.exists
  /\ \E e \in DOMAIN enemy : ~enemy[e].exists

\* C7: a step that takes player.pos.y beyond the threshold of 2000 asks for
\* the restart of level-1 whatever the health is, and a pending restart (of
\* either origin) is carried out the same way: the scene is built anew.
C7_FallOut ==
  [][/\ (goTo = NoScene /\ player'.posY > 2000) => goTo' = "level-1"
     /\ (goTo = "level-1")
          => (player' = makePlayer /\ enemy' = SceneEnemies(DOMAIN enemy) /\ stars' = <<>>
              /\ goTo' = NoScene)]_vars

\* The restart was asked for by the fall-out check of a player with full health.
C7_Witness ==
  /\ goTo = "level-1"
  /\ player.exists
  /\ player.posY > 2000
  /\ player.health = 3

\* C8: a hopper leaves idle for jump in the frame that completes 1s of idle
\* and in no other; it goes from jump to idle only when grounded; idle is
\* never entered from idle.  (A scene switch replaces the hopper.)
C8_HopperFSM ==
  [][goTo = NoScene =>
       \A e \in DOMAIN enemy \cap Hoppers :
         LET s == enemy[e].state
             t == enemy'[e].state
             full == (enemy[e].dwell + 1 = 1 * TicksPerSec)
         IN /\ (s = "idle") => enemy[e].dwell < 1 * TicksPerSec
            /\ (s = "idle" /\ t # "idle") => (t = "jump" /\ full /\ Tick)
            /\ (s = "idle" /\ full /\ Tick) => t = "jump"
            /\ (s = "idle" /\ t = "idle") => enemy'[e].dwell >= enemy[e].dwell
            /\ (s = "jump" /\ t # "jump")
                 => (t = "idle" /\ enemy[e].grounded /\ EnemyOnUpdate(e))]_vars

\* A live hopper has jumped and is back on the ground, still in state jump.
C8_Witness ==
  \E e \in DOMAIN enemy \cap Hoppers :
    enemy[e].exists /\ enemy[e].state = "jump" /\ enemy[e].grounded

\* C9: a patroller is idle for 1s, then left for 2s, then right for 2s, then
\* left for 2s ...: it changes state only in the frame that completes the
\* dwell time of its state, always changes then, goes idle -> left,
\* left -> right, right -> left, and never re-enters a state it is in.
C9_PatrollerFSM ==
  [][goTo = NoScene =>
       \A e \in DOMAIN vel :
         LET s == enemy[e].state
             t == enemy'[e].state
             secs == IF s = "idle" THEN 1 ELSE 2
             full == (enemy[e].dwell + 1 = secs * TicksPerSec)
         IN /\ enemy[e].dwell < secs * TicksPerSec
            /\ (s # t) => /\ full /\ Tick
                          /\ <<s, t>> \in {<<"idle", "left">>, <<"left", "right">>,
                                           <<"right", "left">>}
            /\ (full /\ Tick) => s # t
            /\ (s = t) => enemy'[e].dwell >= enemy[e].dwell]_vars

\* The patroller is in state left again after walking right.
C9_Witness ==
  \E e \in DOMAIN vel :
    enemy[e].exists /\ enemy[e].state = "left" /\ vel[e] = 100

\* C10 as stated: in every frame a live patroller spends in state left its
\* position decreases, and in every frame in state right it increases.
C10_MonotoneInState ==
  [][\A e \in DOMAIN vel :
       EnemyOnUpdate(e)
         => /\ (enemy[e].state = "left") => vel'[e] < 0
            /\ (enemy[e].state = "right") => vel'[e] > 0]_vars

\* C10 amended: in a frame a live patroller spends in state left (right) it
\* moves at -100 (+100) units/sec, to which the inhale pull of 800 units/sec
\* away from the player's facing is added when player.isInhaling and its
\* isInhalable are both true; without the pull its position is monotone.
C10_MonotoneUnlessPulled ==
  [][\A e \in DOMAIN vel :
       EnemyOnUpdate(e)
         => LET pull == IF ~(player.isInhaling /\ enemy[e].isInhalable) THEN 0
                        ELSE IF player.direction = "right" THEN 0 - 800 ELSE 800
            IN /\ (enemy[e].state = "left") => vel'[e] = pull - 100
               /\ (enemy[e].state = "right") => vel'[e] = pull + 100
               /\ (enemy[e].state = "idle") => vel'[e] = pull]_vars

\* A live patroller inside the inhale zone walked left at its own speed
\* because the player was not inhaling.
C10_Witness ==
  \E e \in DOMAIN vel :
    /\ enemy[e].exists
    /\ enemy[e].isInhalable
    /\ vel[e] = 0 - 100
    /\ ~actionState.inhale

\* C11: an enemy of any kind is inhalable only while it overlaps the inhale
\* zone: a new enemy is not inhalable, the begin of the overlap sets
\* isInhalable, the end of the overlap clears it, and no other step changes
\* the isInhalable of an enemy that is in the scene before and after it.
C11_InhalableOnlyInZone ==
  [][\A e \in DOMAIN enemy :
       /\ enemy'[e].isInhalable => enemy'[e].inZone
       /\ (~enemy[e].exists /\ enemy'[e].exists) => ~enemy'[e].isInhalable
       /\ ZoneEnter(e) => enemy'[e].isInhalable
       /\ ZoneLeave(e) => ~enemy'[e].isInhalable
       /\ (enemy[e].exists /\ enemy'[e].exists /\ goTo = NoScene
             /\ enemy'[e].isInhalable # enemy[e].isInhalable)
            => (ZoneEnter(e) \/ ZoneLeave(e))]_vars

\* A flyer that is in the zone was updated there and is inhalable.
C11_Witness ==
  \E e \in DOMAIN enemy \cap Flyers :
    /\ enemy[e].exists
    /\ enemy[e].isInhalable
    /\ enemy[e].inZone
    /\ vel[e] = 0 - enemy[e].speed

\* C12: in a frame the update of a live enemy adds the inhale pull to the
\* enemy's own movement if and only if player.isInhaling and its
\* isInhalable are both true in that frame; the pull is -800 when the player
\* faces right and +800 when it faces left.
C12_Pull ==
  [][\A e \in DOMAIN enemy :
       EnemyOnUpdate(e)
         => LET own == IF enemy[e].kind = "guy" /\ enemy[e].state = "left" THEN 0 - 100
                       ELSE IF enemy[e].kind = "guy" /\ enemy[e].state = "right" THEN 100
                       ELSE IF enemy[e].kind = "bird" THEN 0 - enemy[e].speed
                       ELSE 0
            IN vel'[e] - own =
                 (IF player.isInhaling /\ enemy[e].isInhalable
                  THEN (IF player.direction = "right" THEN 0 - 800 ELSE 800)
                  ELSE 0)]_vars

\* A live hopper was pulled towards a player that faces left.
C12_Witness ==
  \E e \in DOMAIN enemy \cap Hoppers :
    /\ enemy[e].exists
    /\ vel[e] = 800
    /\ player.direction = "left"
    /\ player.isInhaling

\* C13: a projectile can hit every enemy of the scene, whatever the state and
\* the isInhalable of the enemy and whatever the player does; the hit
\* destroys that enemy and that projectile and nothing else; a projectile
\* that hits a platform is destroyed and no enemy is.
C13_ProjectileHit ==
  [][/\ \A e \in DOMAIN enemy : \A i \in 1..Len(stars) :
          (goTo = NoScene /\ enemy[e].exists) => ENABLED StarHitsEnemy(e, i)
     /\ \A e \in DOMAIN enemy : \A i \in 1..Len(stars) :
          StarHitsEnemy(e, i)
            => /\ ~enemy'[e].exists
               /\ \A f \in DOMAIN enemy \ {e} : enemy'[f] = enemy[f]
               /\ Len(stars') = Len(stars) - 1
               /\ \A j \in 1..Len(stars') : stars'[j] = stars[IF j < i THEN j ELSE j + 1]
               /\ player' = player
     /\ \A i \in 1..Len(stars) :
          (StarHitsPlatform(i) /\ enemy' = enemy)
            => /\ Len(stars') = Len(stars) - 1
               /\ \A j \in 1..Len(stars') : stars'[j] = stars[IF j < i THEN j ELSE j + 1]]_vars

\* The patroller was destroyed outside the inhale zone, where it cannot be
\* consumed, by the projectile the consumed hopper gave.
C13_Witness ==
  /\ DOMAIN enemy = {"flame", "guy"}
  /\ ~enemy["guy"].exists
  /\ ~enemy["guy"].isInhalable
  /\ ~enemy["flame"].exists
  /\ stars = <<>>

\* C14: the k.onKeyDown handler of a mapped key sets the flag of that key's
\* action and leaves the other two flags alone; the k.onKeyRelease handler of
\* a mapped key clears the flag of that key's action and leaves the other two
\* alone; for an unmapped key neither handler changes the actionState, and a
\* key that goes down changes no flag before its k.onKeyDown runs.
C14_ActionStateTracker ==
  [][\A key \in Keys :
       LET action == IF key \in {"left", "a"} THEN "moveLeft"
                     ELSE IF key \in {"right", "d"} THEN "moveRight"
                     ELSE IF key \in {"z", "1"} THEN "inhale"
                     ELSE "none"
       IN /\ HeldKeyDown(key)
               => actionState' = IF action = "none" THEN actionState
                                 ELSE [actionState EXCEPT ![action] = TRUE]
          /\ ReleaseKey(key)
               => actionState' = IF action = "none" THEN actionState
                                 ELSE [actionState EXCEPT ![action] = FALSE]
          /\ PressKey(key) => actionState' = actionState]_vars

\* 'a' and the unmapped 'x' are held and only moveLeft is set.
C14_Witness ==
  /\ held = {"a", "x"}
  /\ actionState = [moveLeft |-> TRUE, moveRight |-> FALSE, inhale |-> FALSE]

\* C15: when both keys of an action are held and one of them goes up, the
\* flag of the action is cleared by that release although the other key is
\* still held.
C15_ReleaseOfOneKeyClears ==
  [][\A pair \in {<<"left", "a", "moveLeft">>, <<"a", "left", "moveLeft">>,
                  <<"right", "d", "moveRight">>, <<"d", "right", "moveRight">>,
                  <<"z", "1", "inhale">>, <<"1", "z", "inhale">>} :
       (ReleaseKey(pair[1]) /\ pair[2] \in held)
         => (~actionState'[pair[3]] /\ pair[2] \in held')]_vars

\* The left arrow is still held, 'a' is not, and moveLeft is cleared after
\* the player was moved to the left.
C15_Witness ==
  /\ held = {"left"}
  /\ ~actionState.moveLeft
  /\ vel["player"] = 0 - 300
  /\ player.direction = "left"

\* C16: the per-frame update moves the player at 0 and keeps its direction
\* when moveLeft and moveRight are both set; it moves the player at -300 and
\* turns it left when only moveLeft is set, at +300 and turns it right when
\* only moveRight is set.
C16_OppositeInputsCancel ==
  [][OnUpdateControls
       => /\ (actionState.moveLeft /\ actionState.moveRight)
               => (vel'["player"] = 0 /\ player'.direction = player.direction)
          /\ (actionState.moveLeft /\ ~actionState.moveRight)
               => (vel'["player"] = 0 - 300 /\ player'.direction = "left")
          /\ (actionState.moveRight /\ ~actionState.moveLeft)
               => (vel'["player"] = 300 /\ player'.direction = "right")]_vars

\* Both actions are set and the update left the player where it was, still
\* facing left.
C16_Witness ==
  /\ actionState.moveLeft
  /\ actionState.moveRight
  /\ vel["player"] = 0
  /\ player.direction = "left"
  /\ {"left", "right"} \subseteq held

\* C17: only the per-frame update moves or turns the player, no key event
\* does; and the velocity of a frame is -300, 0 or +300 as the two movement
\* flags say, whichever and however many keys are held.
C17_MovementOncePerFrame ==
  [][/\ (vel'["player"] # vel["player"] \/ player'.direction # player.direction)
          => OnUpdateControls
     /\ OnUpdateControls
          => vel'["player"] =
               (IF actionState.moveLeft /\ ~actionState.moveRight THEN 0 - 300
                ELSE IF actionState.moveRight /\ ~actionState.moveLeft THEN 300
                ELSE 0)]_vars

\* Both keys of moveLeft are held and the player moved at -300.
C17_Witness ==
  /\ {"left", "a"} \subseteq held
  /\ actionState.moveLeft
  /\ vel["player"] = 0 - 300

\* C18: makeMap produces exactly one collider for every object of a
\* "colliders" layer, in the order of the map data: tagged "platform" with a
\* static body when the object is not named "exit", tagged "exit" without a
\* static body when it is.
C18_Colliders ==
  level.loaded =>
    LET RECURSIVE ColliderObjects(_)
        ColliderObjects(ls) ==
          IF ls = <<>> THEN <<>>
          ELSE (IF Head(ls).name = "colliders" THEN Head(ls).objects ELSE <<>>)
                 \o ColliderObjects(Tail(ls))
        objs == ColliderObjects(mapData.layers)
        map == level.result.map
    IN /\ Len(map) = Len(objs)
       /\ \A i \in 1..Len(objs) :
            /\ map[i].x = objs[i].x /\ map[i].y = objs[i].y
            /\ map[i].width = objs[i].width /\ map[i].height = objs[i].height
            /\ (objs[i].name # "exit") => (map[i].tag = "platform" /\ map[i].isStatic)
            /\ (objs[i].name = "exit") => (map[i].tag = "exit" /\ ~map[i].isStatic)

\* C19: the keys of spawnPoints are the names that occur among the objects of
\* the "spawnpoints" layers, and spawnPoints[name] lists the (x, y) of the
\* objects of that name in the order of the map data.
C19_SpawnPoints ==
  level.loaded =>
    LET RECURSIVE SpawnObjects(_)
        SpawnObjects(ls) ==
          IF ls = <<>> THEN <<>>
          ELSE (IF Head(ls).name = "spawnpoints" THEN Head(ls).objects ELSE <<>>)
                 \o SpawnObjects(Tail(ls))
        RECURSIVE PointsOf(_, _)
        PointsOf(objs, n) ==
          IF objs = <<>> THEN <<>>
          ELSE (IF Head(objs).name = n
                THEN <<[x |-> Head(objs).x, y |-> Head(objs).y]>> ELSE <<>>)
                 \o PointsOf(Tail(objs), n)
        objs == SpawnObjects(mapData.layers)
        sp == level.result.spawnPoints
    IN /\ DOMAIN sp = {objs[i].name : i \in 1..Len(objs)}
       /\ \A n \in DOMAIN sp : sp[n] = PointsOf(objs, n)

\* C20: a layer that is neither "colliders" nor "spawnpoints" costs one
\* warning and nothing else: makeMap fails, or not, and returns the colliders
\* and the spawn points it returns for the map data without that layer.
C20_UnknownLayerSkipped ==
  level.loaded =>
    \A i \in 1..Len(mapData.layers) :
      mapData.layers[i].name \notin {"colliders", "spawnpoints"}
        => LET without == makeMap([layers |-> RemoveAt(mapData.layers, i)])
               with == level.result
           IN /\ with.failed = without.failed
              /\ with.map = without.map
              /\ with.spawnPoints = without.spawnPoints
              /\ (~with.failed => Len(with.warnings) = Len(without.warnings) + 1)
              /\ (\A j \in 1..Len(mapData.layers) :
                    mapData.layers[j].name \in {"image"}) => ~with.failed

\* A map with an unknown layer that has an object, before a layer of spawn
\* points, was loaded: one warning, and the spawn point is there.
C20_Witness ==
  /\ level.loaded
  /\ Len(mapData.layers) = 2
  /\ mapData.layers[1].name = "image"
  /\ Len(mapData.layers[1].objects) = 1
  /\ mapData.layers[2].name = "spawnpoints"
  /\ ~level.result.failed
  /\ Len(level.result.warnings) = 1
  /\ DOMAIN level.result.spawnPoints = {"flame"}

\* C21: when the fetch of the map data or the parse of its JSON fails, makeMap
\* fails; and whenever makeMap has failed, gameSetup has ended there: the
\* scene is neither asked for nor run, and there is no player, no other
\* object of the scene and no camera position.
C21_NoSceneWithoutMap ==
  /\ (setup.fetch # "ok" /\ level.loaded) => level.result.failed
  /\ (setup.fetch # "ok" \/ level.result.failed)
       => /\ setup.pc \in {"makeMap", "rejected"}
          /\ goTo = NoScene
          /\ ~player.exists
          /\ setup.objects = <<>>
          /\ ~cam.isSet

\* The map data was fetched but its JSON did not parse, and gameSetup has
\* ended with the rejection of makeMap.
C21_Witness ==
  /\ setup.fetch = "malformed"
  /\ level.loaded
  /\ setup.pc = "rejected"
  /\ Len(mapData.layers[2].objects) > 0

\* C22 as stated: the jump counter has 2 charges: a press of a jump key makes
\* the player jump if fewer than 2 jumps were made since it was last on the
\* ground and does nothing otherwise, coming to the ground resets the count,
\* and at most 2 jumps are made between two groundings.
C22_TwoCharges ==
  [][/\ \A key \in JumpKeys :
          PressKey(key) => player'.jumped = IF player.jumped < 2
                                            THEN player.jumped + 1 ELSE player.jumped
     /\ PlayerLands => player'.jumped = 0
     /\ player'.jumped <= 2]_vars

\* C22 amended: the jump counter has 10 charges: a press of 'x' or space
\* takes one charge and makes the player jump if a charge is left and changes
\* nothing of the player otherwise, a press of another key takes none, coming
\* to the ground sets the counter to 10 again, and at most 10 jumps are made
\* between two groundings.
C22_TenCharges ==
  [][/\ \A key \in {"x", "space"} :
          PressKey(key)
            => IF player.jumpsLeft > 0
               THEN /\ player'.jumpsLeft = player.jumpsLeft - 1
                    /\ player'.jumped = player.jumped + 1
                    /\ ~player'.grounded
               ELSE player' = player
     /\ PressKey("z") => player' = player
     /\ PlayerLands => (player'.jumpsLeft = 10 /\ player'.jumped = 0)
     /\ player'.jumped <= 10
     /\ player'.jumpsLeft = 10 - player'.jumped]_vars

\* The player has made ten jumps without coming to the ground, the last one
\* with the space key, and has no charge left.
C22_Witness ==
  /\ player.jumped = 10
  /\ player.jumpsLeft = 0
  /\ ~player.grounded
  /\ "space" \in held

\* C23: the player can collide with the exit whatever its health, isInhaling
\* and isFull are, and the collision asks for the scene of the next level,
\* a scene the engine can switch to.
C23_ExitToNextLevel ==
  [][/\ (goTo = NoScene /\ player.exists) => ENABLED CollideExit
     /\ CollideExit => (goTo' = "level-2" /\ "level-2" \in Scenes)]_vars

\* C24: a frame's camera update sets the camera x to the player's x + 500
\* when the player's x is below the left edge of the map + 432 and leaves
\* the camera as it is otherwise; nothing else moves the camera, so the
\* camera never gets beyond the position it has for a player on the bound.
C24_CameraClamp ==
  [][/\ CameraOnUpdate =>
          IF posX["player"] < LayoutX + 432
          THEN cam' = [isSet |-> TRUE, x |-> posX["player"] + 500]
          ELSE cam' = cam
     /\ (cam' # cam) => posX["player"] < LayoutX + 432
     /\ cam'.isSet => cam'.x < LayoutX + 432 + 500]_vars

\* The player has walked to the right wall, beyond the bound, and the camera
\* has stayed where the last update below the bound put it.
C24_Witness ==
  /\ "player" \in DOMAIN posX
  /\ posX["player"] = RightWall
  /\ posX["player"] > LayoutX + CamClamp
  /\ cam.isSet
  /\ cam.x < LayoutX + CamClamp + CamOffset
  /\ cam.x < posX["player"] + CamOffset

\* C25: once the scene function has run on the spawn data of a loaded map
\* that has a "player" spawn point, the setup has completed, the player
\* stands at the first "player" spawn point, and the scene has one hopper
\* per "flame" spawn point, one patroller per "guy" spawn point and one
\* flyer timer per "bird" spawn point: none for a group without spawn
\* points.
C25_LevelSetup ==
  (/\ level.loaded
   /\ ~level.result.failed
   /\ "player" \in DOMAIN level.result.spawnPoints
   /\ setup.pc \in {"running", "crashed"})
  => LET sp == level.result.spawnPoints
         count(g) == IF g \in DOMAIN sp THEN Len(sp[g]) ELSE 0
         made(kind) == Cardinality({i \in 1..Len(setup.objects) :
                                      setup.objects[i].kind = kind})
     IN /\ setup.pc = "running"
        /\ player.exists
        /\ setup.objects[1] = [kind |-> "player", x |-> sp["player"][1].x,
                                                  y |-> sp["player"][1].y]
        /\ made("player") = 1
        /\ made("flame") = count("flame")
        /\ made("guy") = count("guy")
        /\ made("birdLoop") = count("bird")

\* C26: a restart of the level puts the game in the start state of the
\* level: the new player has health 3, isInhaling false, isFull false and
\* direction right and stands at the spawn point, the enemies, timers,
\* projectiles, flashes and camera are those of the start, and so is the
\* ActionState the new player acts on, so that nothing of the life before
\* is left.
C26_RestartIsStartState ==
  [][SceneSwitch =>
       /\ player'.exists
       /\ player'.health = 3
       /\ ~player'.isInhaling
       /\ ~player'.isFull
       /\ player'.direction = "right"
       /\ player'.posY = SpawnY
       /\ player' = makePlayer
       /\ enemy' = SceneEnemies(DOMAIN enemy)
       /\ timers' = SceneTimers(EnemyOrder, DOMAIN enemy)
       /\ stars' = <<>>
       /\ tweens' = <<>>
       /\ cam' = NoCam
       /\ goTo' = NoScene
       /\ actionState' = [moveLeft |-> FALSE, moveRight |-> FALSE, inhale |-> FALSE]]_vars

\* C27: the destruction of a hopper or patroller (consumed or shot) leaves
\* its pending dwell timer in place, and a frame in which a timer of a
\* destroyed enemy is due runs its continuation: the destroyed enemy enters
\* the timer's next state.
C27_TimersOutliveOwner ==
  [][/\ \A e \in DOMAIN enemy :
          (enemy[e].exists /\ ~enemy'[e].exists) => timers' = timers
     /\ Tick =>
          \A i \in 1..Len(timers) :
             LET tm == timers[i] IN
             (tm.t + 1 >= tm.time /\ ~enemy[tm.owner].exists)
               => /\ ~enemy'[tm.owner].exists
                  /\ enemy'[tm.owner].state = tm.next
                  /\ enemy'[tm.owner].stale]_vars

\* A destroyed patroller that a timer has moved on after its destruction, its
\* next dwell timer pending.
C27_Witness ==
  /\ "guy" \in DOMAIN enemy
  /\ ~enemy["guy"].exists
  /\ enemy["guy"].stale
  /\ enemy["guy"].state \in {"left", "right"}
  /\ \E i \in 1..Len(timers) : timers[i].owner = "guy"

\* C28: every damaging collision starts a flash, whatever flashes are in
\* progress: its first tween (opacity to 0) is added to the tweens that are
\* writing player.opacity, none of which is stopped.
C28_FlashNotGuarded ==
  [][\A e \in DOMAIN enemy :
       (CollideEnemy(e) /\ ~IsConsume(player, enemy[e]) /\ ~IsDead(player))
         => /\ Len(tweens') = Len(tweens) + 1
            /\ SubSeq(tweens', 1, Len(tweens)) = tweens
            /\ tweens'[Len(tweens')].phase = 1
            /\ tweens'[Len(tweens')].to = 0]_vars

\* Two flashes in progress: the second collision came while the flash of the
\* first was in its second tween.
C28_Witness ==
  /\ player.exists
  /\ goTo = NoScene
  /\ Len(tweens) >= 2
  /\ tweens[1].phase = 2
  /\ tweens[2].phase = 1

\* C29: a collision of an inhaling player with an inhalable enemy is a
\* consume whatever the player's health is, 0 included: the enemy is
\* destroyed, the player is full, keeps its health and is not destroyed, and
\* no restart is asked for.  Any other collision decrements the health or,
\* at health 0, destroys the player.
C29_ConsumeBeforeDeath ==
  [][\A e \in DOMAIN enemy :
       CollideEnemy(e) =>
         IF player.isInhaling /\ enemy[e].isInhalable
         THEN /\ ~enemy'[e].exists
              /\ player'.exists
              /\ player'.isFull
              /\ player'.health = player.health
              /\ goTo' = NoScene
         ELSE /\ enemy'[e].exists
              /\ \/ player'.exists /\ player'.health = player.health - 1
                 \/ player.health = 0 /\ ~player'.exists]_vars

\* The hopper, the only enemy of the level, has hurt the player down to
\* health 0 and was then consumed.
C29_Witness ==
  /\ DOMAIN enemy = {"flame"}
  /\ ~enemy["flame"].exists
  /\ player.exists
  /\ player.health = 0
  /\ player.isFull
  /\ goTo = NoScene

\* The steps of a flyer: its update moves it left at its speed, the inhale
\* pull added, and destroys it in the first frame in which its own movement
\* has taken it more than 400 beyond the edge of the screen, and in no other.
C30_Safety ==
  [][\A b \in DOMAIN enemy \cap Flyers :
       LET x1 == posX[b] - enemy[b].speed \div TicksPerSec
       IN /\ EnemyOnUpdate(b) =>
               /\ vel'[b] = (0 - enemy[b].speed) + Pull(player, enemy[b])
               /\ IF x1 < ScreenLeft - 400
                  THEN ~enemy'[b].exists
                  ELSE /\ enemy'[b] = enemy[b]
                       /\ Pull(player, enemy[b]) = 0 => posX'[b] = x1
                       /\ Pull(player, enemy[b]) < 0 => posX'[b] < x1
                       /\ Pull(player, enemy[b]) > 0 => posX'[b] >= x1
          /\ (enemy[b].exists /\ ~enemy'[b].exists) =>
               (EnemyOnUpdate(b) /\ x1 < ScreenLeft - 400)
          /\ (enemy[b].exists /\ posX'[b] # posX[b]) => EnemyOnUpdate(b)]_vars

\* C30 (as claimed): a flyer moves left at its speed and is destroyed once it
\* is more than 400 outside the screen, and every flyer that was spawned is
\* destroyed in the end.
C30_EveryFlyerDestroyed ==
  /\ C30_Safety
  /\ \A b \in Flyers : enemy[b].exists ~> ~enemy[b].exists

\* C30 (amended): the same, but a flyer is destroyed in the end only if the
\* player does not keep pulling it back to the right: a flyer that exists is
\* destroyed, or is pulled to the right once more.
C30_FlyerDestroyedUnlessPulled ==
  /\ C30_Safety
  /\ \A b \in Flyers :
       enemy[b].exists ~>
         (~enemy[b].exists \/ Pull(player, enemy[b]) > 0)

\* A flyer that flew out of the screen and was destroyed 400 beyond its edge.
C30_Witness ==
  /\ "bird" \in DOMAIN posX
  /\ ~enemy["bird"].exists
  /\ posX["bird"] < ScreenLeft - OffscreenDist
  /\ goTo = NoScene

\* C31: the health of the player is an integer from 0 to 3.  No step
\* increases the health of a player; only the scene function, which makes a
\* new player, gives health 3.  A collision that is not a consume takes one
\* point from a player with health left and destroys a player at health 0,
\* whose health stays 0.
C31_HealthRange ==
  [][/\ player.health \in 0..3
     /\ player'.health \in 0..3
     /\ SceneSwitch => player'.health = 3
     /\ ~SceneSwitch => player'.health <= player.health
     /\ \A e \in DOMAIN enemy :
          (CollideEnemy(e) /\ ~(player.isInhaling /\ enemy[e].isInhalable))
            => IF player.health = 0
               THEN ~player'.exists /\ player'.health = 0
               ELSE player'.exists /\ player'.health = player.health - 1]_vars

\* A player destroyed at health 0 by a collision, its health still 0.
C31_Witness ==
  /\ ~player.exists
  /\ player.health = 0
  /\ goTo = "level-1"
  /\ Len(tweens) = 3

\* C32: within one life of the player, the number of shootingStar objects
\* created so far is at most the number of enemies consumed so far and
\* differs from it by at most one; the difference is one exactly while the
\* player is full.
C32_SpitAfterConsume ==
  /\ life.created <= life.consumed
  /\ life.consumed - life.created <= 1
  /\ player.isFull <=> life.consumed = life.created + 1

\* The second spit of a life, after the second consume.
C32_Witness ==
  /\ life.consumed = 2
  /\ life.created = 2
  /\ player.exists

C34_OneDwellTimer ==
  /\ [](\A e \in DOMAIN enemy :
          (enemy[e].exists /\ enemy[e].kind \in {"flame", "guy"}) =>
            LET own == {i \in 1..Len(timers) : timers[i].owner = e}
            IN /\ Cardinality(own) <= 1
               /\ enemy[e].state = "jump" => own = {}
               /\ enemy[e].state \in {"idle", "left", "right"} =>
                    \E i \in own :
                      timers[i].next =
                        IF enemy[e].state = "left" THEN "right"
                        ELSE IF enemy[e].state = "right" THEN "left"
                        ELSE IF enemy[e].kind = "flame" THEN "jump" ELSE "left")
  /\ [][\A e \in DOMAIN enemy :
          (/\ ~SceneSwitch
           /\ enemy[e].exists /\ enemy'[e].exists
           /\ enemy[e].state \in {"idle", "left", "right"}
           /\ enemy'[e].state # enemy[e].state)
            => \E i \in 1..Len(timers) :
                 /\ timers[i].owner = e
                 /\ timers[i].t + 1 >= timers[i].time
                 /\ timers[i].next = enemy'[e].state]_vars

\* The hopper back in idle after a jump and the patroller walking right,
\* each with its one timer, both started by a state entered after the start.
C34_Witness ==
  /\ enemy["flame"].exists /\ enemy["flame"].state = "idle"
  /\ enemy["guy"].exists /\ enemy["guy"].state = "right"
  /\ Len(timers) = 2
  /\ \E i, j \in 1..Len(timers) :
       /\ timers[i].owner = "flame" /\ timers[i].next = "jump"
       /\ timers[j].owner = "guy" /\ timers[j].next = "left"

====
